---- MODULE Spec2Model ----
(***************************************************************************)
(* Model of the TinaCMS GitHub integration:                                *)
(*   - GithubClient (react-tinacms-github/src/github-client/index.ts), the *)
(*     browser-side client that forwards GitHub REST calls to a proxy and  *)
(*     keeps the fork / branch identity in two cookies;                    *)
(*   - getGithubPreviewProps (next-tinacms-github), the server-side helper *)
(*     that shapes one fetched file into a props envelope.                 *)
(*                                                                         *)
(* Conventions of the encoding.                                            *)
(*   - A JavaScript string that the code takes apart or glues together     *)
(*     (repository names, branch names) is a tuple of characters.          *)
(*   - A value that may be undefined / null is an "option": <<>> for       *)
(*     undefined or null, <<v>> for the value v.                           *)
(*   - A JSON object is a record; a JSON array is a record with the fields *)
(*     length and items.                                                   *)
(*   - An exception is a record with the fields name and message, and a    *)
(*     status field when the object carries one.                           *)
(***************************************************************************)
EXTENDS Integers, Sequences, FiniteSets, TLC

\* cookies: the browser's cookie jar (the two slots the client uses)
\* last: the latest call, with its inputs, the requests it sent and its result
\* forked: the fork record the latest successful createFork handed to its
\*         caller, <<>> while there was none
VARIABLES cookies, last, forked

vars == <<cookies, last, forked>>

----------------------------------------------------------------------------
(* Bounds and input universes                                              *)

\* longest list of pull requests the proxy returns
MaxPulls == 2

FORK_COOKIE_KEY == "fork_full_name"

HEAD_BRANCH_COOKIE_KEY == "head_branch"

CookieKeys == {FORK_COOKIE_KEY, HEAD_BRANCH_COOKIE_KEY}

\* 'master', the default of branchName and of the constructor's baseBranch
master == <<"m", "a", "s", "t", "e", "r">>

dev == <<"d", "e", "v">>

\* repository full names, "owner/repo"
ForkA == <<"a", "/", "r">>

ForkB == <<"b", "c", "/", "r">>

BaseRepo == <<"o", "/", "r">>

ForkNames == {ForkA, ForkB}

BranchNames == {master, dev}

\* the values the two cookie slots hold when the client is used
CookieJars ==
  { [k \in keys |-> IF k = FORK_COOKIE_KEY THEN f ELSE b] :
      keys \in SUBSET CookieKeys, f \in ForkNames, b \in BranchNames }

\* status line of a proxy response
StatusLines ==
  { [status |-> 200, statusText |-> "OK"],
    [status |-> 201, statusText |-> "Created"],
    [status |-> 401, statusText |-> "Unauthorized"],
    [status |-> 403, statusText |-> "Forbidden"],
    [status |-> 404, statusText |-> "Not Found"],
    [status |-> 404, statusText |-> ""],
    [status |-> 502, statusText |-> "Bad Gateway"] }

\* body GitHub sends with an error status
ErrorBody == [message |-> "Bad credentials"]

UserBodies == { [login |-> "a"] }

ForkBodies == { [full_name |-> f] : f \in ForkNames }

CreatedPullBodies == { [number |-> 7] }

BranchBodies == { [ref |-> b] : b \in BranchNames }

CommitBodies == { [commit |-> "c1"] }

\* one entry of GET /repos/{base}/pulls: head.ref, head.repo, base.repo
Pull(ref, headRepo, baseRepo) ==
  [head |-> [ref |-> ref, repo |-> headRepo], base |-> [repo |-> baseRepo]]

Repo(fullName) == <<[full_name |-> fullName]>>

NullRepo == <<>>

PullEntries ==
  { Pull(master, Repo(ForkA), Repo(BaseRepo)),
    Pull(dev, Repo(ForkA), Repo(BaseRepo)),
    Pull(master, NullRepo, Repo(BaseRepo)),
    Pull(master, Repo(ForkA), NullRepo),
    Pull(master, Repo(ForkB), Repo(BaseRepo)),
    Pull(master, Repo(ForkA), Repo(ForkA)) }

\* the entry at index i carries number i, so that two entries of one list
\* are told apart
Numbered(entries) ==
  [i \in 1..Len(entries) |->
     [number |-> i, head |-> entries[i].head, base |-> entries[i].base]]

JsonArray(items) == [length |-> Len(items), items |-> items]

PullListBodies ==
  { JsonArray(Numbered(es)) :
      es \in UNION { [1..n -> PullEntries] : n \in 0..MaxPulls } }

\* what the proxy does with one request: the fetch is rejected, or a
\* response arrives whose body parses as JSON (<<data>>) or does not (<<>>)
NetworkFailure == [net |-> "fail"]

Response(line, body) ==
  [net |-> "ok", status |-> line.status, statusText |-> line.statusText,
   body |-> body]

ProxyOutcomes(okBodies) ==
  {NetworkFailure}
    \cup { Response(l, <<>>) : l \in StatusLines }
    \cup { Response(l, <<ErrorBody>>) :
             l \in { s \in StatusLines : s.status \notin {200, 201} } }
    \cup { Response(l, <<b>>) :
             l \in { s \in StatusLines : s.status \in {200, 201} },
             b \in okBodies }

----------------------------------------------------------------------------
(* Results of a call                                                       *)

Undefined == <<>>

Return(v) == [kind |-> "return", value |-> v]

Throw(e) == [kind |-> "throw", err |-> e]

\* class GithubError extends Error { status }
GithubError(message, status) ==
  [name |-> "GithubError", message |-> message, status |-> status]

\* new Error('GithubClient cannot find name of fork')
ForkPreconditionError ==
  [name |-> "Error", message |-> "GithubClient cannot find name of fork"]

\* the rejection of fetch() and of response.json()
FetchTypeError == [name |-> "TypeError", message |-> "Failed to fetch"]

JsonSyntaxError == [name |-> "SyntaxError", message |-> "Unexpected token"]

\* e.status = s, the assignment: the object gains or overwrites status
AssignStatus(e, s) == [name |-> e.name, message |-> e.message, status |-> s]

\* truthiness of a number
TruthyNumber(n) == n # 0

\* falsiness of a string-or-undefined
Falsy(opt) == opt = <<>> \/ opt[1] = <<>>

----------------------------------------------------------------------------
(* GithubClient                                                            *)

\* constructor arguments: baseRepoFullName, and baseBranch = 'master'
baseRepoFullName == BaseRepo

baseBranch == master

\* Cookies.get(cookieName): the value, or undefined
getCookie(ck, cookieName) ==
  IF cookieName \in DOMAIN ck THEN <<ck[cookieName]>> ELSE Undefined

\* Cookies.set(cookieName, val, { sameSite: 'strict' })
setCookie(ck, cookieName, val) ==
  [k \in DOMAIN ck \cup {cookieName} |-> IF k = cookieName THEN val ELSE ck[k]]

\* number.toString(): the decimal digits, most significant first
RECURSIVE ToDigits(_)
ToDigits(n) == IF n < 10 THEN <<n>> ELSE Append(ToDigits(n \div 10), n % 10)

\* variant of SplitFirst: the split is forgotten, the whole name is used
SplitFirst_NoSplit(str) == str

\* str.split('/')[0]: the characters before the first '/'
RECURSIVE SplitFirst(_)
SplitFirst(str) ==
  IF str = <<>> \/ Head(str) = "/" THEN <<>>
  ELSE <<Head(str)>> \o SplitFirst(Tail(str))

\* fetch(this.proxy, { method: 'POST', body: JSON.stringify(data) })
proxyRequest(data, proxy) ==
  IF proxy.net = "fail" THEN Throw(FetchTypeError) ELSE Return(proxy)

\* variant of getGithubResponse: only status 200 counts as success
getGithubResponse_Only200(response) ==
  IF response.body = <<>> THEN Throw(JsonSyntaxError)
  ELSE IF response.status = 200 THEN Return(response.body)
  ELSE Throw(GithubError(response.statusText, response.status))

\* response.json(), then the status check, then the typed error
getGithubResponse(response) ==
  IF response.body = <<>> THEN Throw(JsonSyntaxError)
  ELSE IF ToDigits(response.status)[1] = 2 THEN Return(response.body)
  ELSE Throw(GithubError(response.statusText, response.status))

req(data, proxy) ==
  LET response == proxyRequest(data, proxy) IN
    IF response.kind = "throw" THEN response
    ELSE getGithubResponse(response.value)

\* get repoFullName()
repoFullName(ck) ==
  LET forkName == getCookie(ck, FORK_COOKIE_KEY) IN
    IF Falsy(forkName) THEN Throw(ForkPreconditionError)
    ELSE Return(forkName[1])

\* get branchName()
branchName(ck) ==
  LET b == getCookie(ck, HEAD_BRANCH_COOKIE_KEY) IN
    IF Falsy(b) THEN master ELSE b[1]

\* what one call did: its result, the cookie jar it leaves, the requests it
\* sent to the proxy
Run(result, ck, requests) ==
  [result |-> result, cookies |-> ck, requests |-> requests]

getUser(ck, proxy) ==
  LET data == [url |-> [path |-> "/user"], method |-> "GET"]
      r == req(data, proxy)
  IN IF r.kind = "return" THEN Run(r, ck, <<data>>)
     ELSE \* catch (e) { if ((e.status = 401)) return; throw e }
          LET e == AssignStatus(r.err, 401) IN
            IF TruthyNumber(e.status) THEN Run(Return(Undefined), ck, <<data>>)
            ELSE Run(Throw(e), ck, <<data>>)

\* variant of createFork: the full name is stored under the branch key
createFork_WrongKey(ck, proxy) ==
  LET data == [url |-> [path |-> "/repos/{base}/forks",
                        repo |-> baseRepoFullName],
               method |-> "POST"]
      fork == req(data, proxy)
  IN IF fork.kind = "throw" THEN Run(fork, ck, <<data>>)
     ELSE Run(fork,
              setCookie(ck, HEAD_BRANCH_COOKIE_KEY, fork.value[1].full_name),
              <<data>>)

createFork(ck, proxy) ==
  LET data == [url |-> [path |-> "/repos/{base}/forks",
                        repo |-> baseRepoFullName],
               method |-> "POST"]
      fork == req(data, proxy)
  IN IF fork.kind = "throw" THEN Run(fork, ck, <<data>>)
     ELSE Run(fork, setCookie(ck, FORK_COOKIE_KEY, fork.value[1].full_name),
              <<data>>)

createPR(ck, title, body, proxy) ==
  LET forkRepoFullName == repoFullName(ck)
      headBranch == branchName(ck)
  IN IF forkRepoFullName.kind = "throw" THEN Run(forkRepoFullName, ck, <<>>)
     ELSE
       LET data ==
             [url |-> [path |-> "/repos/{base}/pulls",
                       repo |-> baseRepoFullName],
              method |-> "POST",
              data |-> [title |-> IF title # "" THEN title
                                  ELSE "Update from TinaCMS",
                        body |-> IF body # "" THEN body
                                 ELSE "Please pull these awesome changes in!",
                        head |-> SplitFirst(forkRepoFullName.value)
                                   \o <<":">> \o headBranch,
                        base |-> baseBranch]]
       IN Run(req(data, proxy), ck, <<data>>)

\* pull.head.repo?.full_name
OptFullName(repo) == IF repo = <<>> THEN Undefined ELSE <<repo[1].full_name>>

\* variant of ScanPulls: the base repository is not compared
RECURSIVE ScanPulls_NoBaseCheck(_, _, _, _)
ScanPulls_NoBaseCheck(branches, i, headBranch, forkRepoFullName) ==
  IF i > branches.length THEN Undefined
  ELSE LET pull == branches.items[i] IN
         IF /\ headBranch = pull.head.ref
            /\ OptFullName(pull.head.repo) = <<forkRepoFullName>>
         THEN <<pull>>
         ELSE ScanPulls_NoBaseCheck(branches, i + 1, headBranch,
                                    forkRepoFullName)

\* the for loop of fetchExistingPR, from index i (1-based here)
RECURSIVE ScanPulls(_, _, _, _)
ScanPulls(branches, i, headBranch, forkRepoFullName) ==
  IF i > branches.length THEN Undefined
  ELSE LET pull == branches.items[i] IN
         IF /\ headBranch = pull.head.ref
            /\ OptFullName(pull.head.repo) = <<forkRepoFullName>>
            /\ OptFullName(pull.base.repo) = <<baseRepoFullName>>
         THEN <<pull>>
         ELSE ScanPulls(branches, i + 1, headBranch, forkRepoFullName)

fetchExistingPR(ck, proxy) ==
  LET forkRepoFullName == repoFullName(ck)
      headBranch == branchName(ck)
  IN IF forkRepoFullName.kind = "throw" THEN Run(forkRepoFullName, ck, <<>>)
     ELSE
       LET data == [url |-> [path |-> "/repos/{base}/pulls",
                             repo |-> baseRepoFullName],
                    method |-> "GET"]
           branches == req(data, proxy)
       IN IF branches.kind = "throw" THEN Run(branches, ck, <<data>>)
          ELSE Run(Return(ScanPulls(branches.value[1], 1, headBranch,
                                    forkRepoFullName.value)),
                   ck, <<data>>)

getBranch(ck, proxy) ==
  LET fullName == repoFullName(ck)
      branch == branchName(ck)
      data == [url |-> [path |-> "/repos/{repo}/git/ref/heads/{branch}",
                        repo |-> fullName.value, branch |-> branch],
               method |-> "GET"]
      \* the try block: the getter's throw is inside it
      r == IF fullName.kind = "throw" THEN fullName ELSE req(data, proxy)
      requests == IF fullName.kind = "throw" THEN <<>> ELSE <<data>>
  IN IF r.kind = "return" THEN Run(r, ck, requests)
     ELSE \* catch (e) { if ((e.status = 404)) return; throw e }
          LET e == AssignStatus(r.err, 404) IN
            IF TruthyNumber(e.status) THEN Run(Return(Undefined), ck, requests)
            ELSE Run(Throw(e), ck, requests)

\* b64EncodeUnicode(fileContents), of ./base64
b64EncodeUnicode(fileContents) == [base64OfUtf8 |-> fileContents]

commit(ck, filePath, sha, fileContents, commitMessage, proxy) ==
  LET repo == repoFullName(ck)
      branch == branchName(ck)
  IN IF repo.kind = "throw" THEN Run(repo, ck, <<>>)
     ELSE
       LET data ==
             [url |-> [path |-> "/repos/{repo}/contents/{filePath}",
                       repo |-> repo.value, filePath |-> filePath],
              method |-> "PUT",
              data |-> [message |-> IF commitMessage = <<>>
                                    THEN "Update from TinaCMS"
                                    ELSE commitMessage[1],
                        content |-> b64EncodeUnicode(fileContents),
                        sha |-> sha,
                        branch |-> branch]]
       IN Run(req(data, proxy), ck, <<data>>)

----------------------------------------------------------------------------
(* Preview resolver                                                        *)

\* the caller-supplied parse: it decodes the content, or it throws
ParseBehaviours == {"decode", "throwSyntaxError", "throwGithubError"}

parse(behaviour, content) ==
  IF behaviour = "decode" THEN Return([parsed |-> content])
  ELSE IF behaviour = "throwSyntaxError" THEN Throw(JsonSyntaxError)
  ELSE Throw(GithubError("Unprocessable Entity", 422))

\* getDecodedData(repo, branch, path, token) of ./github/content: the file's
\* sha and decoded content, a GithubError carrying the HTTP status, or any
\* other exception
DecodedDataOutcomes ==
  { Return([sha |-> "sha1", content |-> c]) : c \in {"{}", "# title"} }
    \cup { Throw(GithubError(l.statusText, l.status)) :
             l \in { s \in StatusLines : s.status \notin {200, 201} } }
    \cup { Throw(FetchTypeError) }

\* e instanceof GithubError
InstanceOfGithubError(e) == e.name = "GithubError"

\* { ...e }: the data of the error, without its class
ShallowCopy(e) == [message |-> e.message, status |-> e.status]

PreviewOptions ==
  [github_access_token : {<<>>, <<"t", "0", "k">>},
   fork_full_name : {<<>>, ForkA},
   head_branch : {<<>>, dev},
   fileRelativePath : {"content/home.json"},
   parse : ParseBehaviours]

githubErrorMessage(path, accessToken, sourceProvider) ==
  [file |-> path, repo |-> sourceProvider.forkFullName,
   branch |-> sourceProvider.headBranch,
   accessToken |-> IF accessToken # <<>> THEN "******" ELSE "undefined"]

\* variant of previewProps: the captured error is left out of the envelope
previewProps_NoError(file, sourceProvider, error) ==
  [props |-> [file |-> file, sourceProvider |-> sourceProvider,
              preview |-> TRUE, error |-> <<>>]]

\* the returned envelope
previewProps(file, sourceProvider, error) ==
  [props |-> [file |-> file, sourceProvider |-> sourceProvider,
              preview |-> TRUE, error |-> error]]

getGithubPreviewProps(options, fetched) ==
  LET accessToken == options.github_access_token
      sourceProvider ==
        [forkFullName |-> IF options.fork_full_name # <<>>
                          THEN options.fork_full_name ELSE <<>>,
         headBranch |-> IF options.head_branch # <<>>
                        THEN options.head_branch ELSE master]
      call == [repo |-> sourceProvider.forkFullName,
               branch |-> IF sourceProvider.headBranch # <<>>
                          THEN sourceProvider.headBranch ELSE master,
               path |-> options.fileRelativePath,
               token |-> accessToken]
      \* the try block: the fetch, then the construction of file
      parsed == parse(options.parse, fetched.value.content)
      tried ==
        IF fetched.kind = "throw" THEN fetched
        ELSE IF parsed.kind = "throw" THEN parsed
        ELSE Return([sha |-> fetched.value.sha,
                     fileRelativePath |-> options.fileRelativePath,
                     data |-> parsed.value])
      envelope(file, error) == Return(previewProps(file, sourceProvider, error))
  IN IF tried.kind = "return"
     THEN [result |-> envelope(<<tried.value>>, <<>>), requests |-> <<call>>,
           log |-> <<>>]
     ELSE IF InstanceOfGithubError(tried.err)
     THEN [result |-> envelope(<<>>, <<ShallowCopy(tried.err)>>),
           requests |-> <<call>>,
           log |-> <<githubErrorMessage(options.fileRelativePath, accessToken,
                                        sourceProvider),
                     tried.err>>]
     ELSE [result |-> Throw(tried.err), requests |-> <<call>>, log |-> <<>>]

----------------------------------------------------------------------------
(* The state machine: a cookie jar, and the record of the latest call      *)

NoCall ==
  [op |-> "none", args |-> <<>>, before |-> <<>>, requests |-> <<>>,
   response |-> <<>>, result |-> Return(Undefined), log |-> <<>>]

\* the record of one client call; response is the proxy's answer when a
\* request was sent
Called(op, args, run, proxy) ==
  [op |-> op, args |-> args, before |-> <<cookies>>,
   requests |-> run.requests,
   response |-> IF run.requests = <<>> THEN <<>> ELSE <<proxy>>,
   result |-> run.result, log |-> <<>>]

Init ==
  /\ cookies \in CookieJars
  /\ last = NoCall
  /\ forked = <<>>

GetUser ==
  \E proxy \in ProxyOutcomes(UserBodies) :
    LET run == getUser(cookies, proxy) IN
      /\ cookies' = run.cookies
      /\ last' = Called("getUser", <<>>, run, proxy)
      /\ UNCHANGED forked

CreateFork ==
  \E proxy \in ProxyOutcomes(ForkBodies) :
    LET run == createFork(cookies, proxy) IN
      /\ cookies' = run.cookies
      /\ last' = Called("createFork", <<>>, run, proxy)
      /\ forked' = IF run.result.kind = "return" THEN run.result.value
                   ELSE forked

CreatePR ==
  \E proxy \in ProxyOutcomes(CreatedPullBodies),
     title \in {"", "My change"}, body \in {"", "Please review"} :
    LET run == createPR(cookies, title, body, proxy) IN
      /\ cookies' = run.cookies
      /\ last' = Called("createPR", <<title, body>>, run, proxy)
      /\ UNCHANGED forked

FetchExistingPR ==
  \E proxy \in ProxyOutcomes(PullListBodies) :
    LET run == fetchExistingPR(cookies, proxy) IN
      /\ cookies' = run.cookies
      /\ last' = Called("fetchExistingPR", <<>>, run, proxy)
      /\ UNCHANGED forked

GetBranch ==
  \E proxy \in ProxyOutcomes(BranchBodies) :
    LET run == getBranch(cookies, proxy) IN
      /\ cookies' = run.cookies
      /\ last' = Called("getBranch", <<>>, run, proxy)
      /\ UNCHANGED forked

Commit ==
  \E proxy \in ProxyOutcomes(CommitBodies),
     commitMessage \in {<<>>, <<"Fix typo">>} :
    LET run == commit(cookies, "content/home.json", "sha0", "caf\\u00e9",
                      commitMessage, proxy)
    IN /\ cookies' = run.cookies
       /\ last' = Called("commit", <<commitMessage>>, run, proxy)
       /\ UNCHANGED forked

GetGithubPreviewProps ==
  \E options \in PreviewOptions, fetched \in DecodedDataOutcomes :
    LET run == getGithubPreviewProps(options, fetched) IN
      /\ last' = [op |-> "getGithubPreviewProps", args |-> <<options>>,
                  before |-> <<cookies>>, requests |-> run.requests,
                  response |-> <<fetched>>, result |-> run.result,
                  log |-> run.log]
      /\ UNCHANGED <<cookies, forked>>

Next ==
  \/ GetUser
  \/ CreateFork
  \/ CreatePR
  \/ FetchExistingPR
  \/ GetBranch
  \/ Commit
  \/ GetGithubPreviewProps

Spec == Init /\ [][Next]_vars

----------------------------------------------------------------------------
(* Vocabulary of the properties                                            *)

ForkDependentOps == {"createPR", "fetchExistingPR", "getBranch", "commit"}

ClientOps == {"getUser", "createFork"} \cup ForkDependentOps

\* the latest call was the client operation op and the proxy answered it
\* with an HTTP response
Answered(op) ==
  /\ last.op = op
  /\ last.response # <<>>
  /\ last.response[1].net = "ok"

\* the HTTP status is in the 2xx class
Is2xx(status) == status \in 200..299

Returned == last.result.kind = "return"

Threw == last.result.kind = "throw"

\* the call raised a typed error carrying the response's status and text
ThrewStatusError ==
  /\ Threw
  /\ last.result.err = GithubError(last.response[1].statusText,
                                   last.response[1].status)

\* the cookie slots as the latest call found them
ForkCookieBefore == getCookie(last.before[1], FORK_COOKIE_KEY)

BranchCookieBefore == getCookie(last.before[1], HEAD_BRANCH_COOKIE_KEY)

----------------------------------------------------------------------------
(* Proxy client: HTTP status handling                                      *)

\* C1: getUser returns an empty result without raising when the response
\* status is 401, and raises an error carrying the response's status for
\* every other non-2xx status.
C1_GetUserRaisesOnOtherStatus ==
  (Answered("getUser") /\ last.response[1].body # <<>>) =>
    /\ last.response[1].status = 401 =>
         (Returned /\ last.result.value = Undefined)
    /\ (~Is2xx(last.response[1].status) /\ last.response[1].status # 401) =>
         (Threw /\ last.result.err.status = last.response[1].status)

\* C2: with a fork cookie present, getBranch returns "not found" without
\* raising when the response status is 404, and raises an error carrying
\* the response's status for every other non-2xx status.
C2_GetBranchRaisesOnOtherStatus ==
  (Answered("getBranch") /\ last.response[1].body # <<>>) =>
    /\ last.response[1].status = 404 =>
         (Returned /\ last.result.value = Undefined)
    /\ (~Is2xx(last.response[1].status) /\ last.response[1].status # 404) =>
         (Threw /\ last.result.err.status = last.response[1].status)

\* C3 as stated: createFork, createPR, fetchExistingPR and commit return the
\* parsed JSON body if and only if the status is 2xx, and raise the typed
\* error with the response's status and status text on every non-2xx
\* response, whatever its body.
C3_ReturnsBodyIffStatus2xx ==
  \A op \in {"createFork", "createPR", "fetchExistingPR", "commit"} :
    Answered(op) =>
      /\ last.response[1].body # <<>> =>
           ((Returned /\ last.result.value = last.response[1].body)
              <=> Is2xx(last.response[1].status))
      /\ ~Is2xx(last.response[1].status) => ThrewStatusError

\* C3 amended: for a response whose body parses as JSON, createFork,
\* createPR and commit return the parsed body if and only if the status is
\* 2xx, fetchExistingPR returns on 2xx the entry its scan selects (or not
\* found), and all four raise the typed error with the response's status and
\* status text on non-2xx; a body that does not parse raises the parse error
\* whatever the status.
C3_StatusClassification ==
  \A op \in {"createFork", "createPR", "fetchExistingPR", "commit"} :
    Answered(op) =>
      /\ last.response[1].body = <<>> =>
           (Threw /\ last.result.err = JsonSyntaxError)
      /\ (last.response[1].body # <<>> /\ Is2xx(last.response[1].status)) =>
           /\ Returned
           /\ op # "fetchExistingPR" =>
                last.result.value = last.response[1].body
           /\ op = "fetchExistingPR" =>
                \/ last.result.value = Undefined
                \/ \E i \in 1..last.response[1].body[1].length :
                     last.result.value = <<last.response[1].body[1].items[i]>>
      /\ (last.response[1].body # <<>> /\ ~Is2xx(last.response[1].status)) =>
           ThrewStatusError

\* a 502 whose body parses was raised as a typed error with status 502
C3_Witness ==
  /\ Answered("commit")
  /\ last.response[1].status = 502
  /\ last.response[1].body = <<ErrorBody>>
  /\ Threw
  /\ last.result.err.status = 502

----------------------------------------------------------------------------
(* Proxy client: the fork identity                                         *)

\* C4: without a fork cookie, createPR, fetchExistingPR, getBranch and
\* commit raise the precondition error, and the call sends no request.
C4_ForkPrecondition ==
  (last.op \in ForkDependentOps /\ ForkCookieBefore = <<>>) =>
    /\ Threw
    /\ last.result.err = ForkPreconditionError
    /\ last.requests = <<>>

\* the owner part of "owner/repo": the characters before the first '/'
IsOwnerOf(owner, fullName) ==
  \E k \in 1..Len(fullName) :
    /\ fullName[k] = "/"
    /\ \A j \in 1..(k - 1) : fullName[j] # "/"
    /\ owner = SubSeq(fullName, 1, k - 1)

\* C5: after a successful createFork the fork cookie reads exactly the
\* full_name of the fork-creation response; createFork needs no fork cookie;
\* a later createPR, getBranch or commit passes the fork precondition, and
\* createPR builds head as "{owner of that full_name}:{branch}".
C5_ForkPersisted ==
  /\ last.op = "createFork" =>
       /\ last.requests # <<>>
       /\ Threw => last.result.err # ForkPreconditionError
       /\ Returned =>
            /\ last.result.value = last.response[1].body
            /\ getCookie(cookies, FORK_COOKIE_KEY)
                 = <<last.response[1].body[1].full_name>>
  /\ (forked # <<>> /\ last.op \in {"createPR", "getBranch", "commit"}) =>
       /\ last.requests # <<>>
       /\ Threw => last.result.err # ForkPreconditionError
  /\ (forked # <<>> /\ last.op = "createPR") =>
       \E owner \in {SubSeq(forked[1].full_name, 1, n) :
                       n \in 0..Len(forked[1].full_name)} :
         /\ IsOwnerOf(owner, forked[1].full_name)
         /\ last.requests[1].data.head
              = owner \o <<":">> \o (IF BranchCookieBefore = <<>> THEN master
                                     ELSE BranchCookieBefore[1])

\* createPR ran after a createFork that returned bc/r, in a session whose
\* branch cookie holds dev
C5_Witness ==
  /\ last.op = "createPR"
  /\ forked = <<[full_name |-> ForkB]>>
  /\ last.requests # <<>>
  /\ last.requests[1].data.head = <<"b", "c", ":", "d", "e", "v">>

----------------------------------------------------------------------------
(* Proxy client: lookup of an existing pull request                        *)

\* entry i of the returned list meets the three conditions
PullMatches(pull) ==
  /\ pull.head.ref = (IF BranchCookieBefore = <<>> THEN master
                      ELSE BranchCookieBefore[1])
  /\ pull.head.repo # <<>>
  /\ pull.head.repo[1].full_name = ForkCookieBefore[1]
  /\ pull.base.repo # <<>>
  /\ pull.base.repo[1].full_name = baseRepoFullName

\* C6: fetchExistingPR returns the first entry of the returned list whose
\* head ref is the stored branch (master when the cookie is absent), whose
\* head repo is the stored fork and whose base repo is baseRepoFullName;
\* it returns "not found" exactly when no entry meets all three, entries
\* with a null repo included.
C6_FirstMatchingPull ==
  (Answered("fetchExistingPR") /\ Returned) =>
    LET pulls == last.response[1].body[1]
        hits == { i \in 1..pulls.length : PullMatches(pulls.items[i]) }
    IN /\ hits = {} <=> last.result.value = Undefined
       /\ hits # {} =>
            \E i \in hits :
              /\ \A j \in hits : i <= j
              /\ last.result.value = <<pulls.items[i]>>

\* the second entry was returned although the first has the right branch
\* and base: its head repo is null
C6_Witness ==
  /\ Answered("fetchExistingPR")
  /\ Returned
  /\ last.response[1].body[1].length = 2
  /\ last.response[1].body[1].items[1].head.repo = <<>>
  /\ last.response[1].body[1].items[1].head.ref
       = last.response[1].body[1].items[2].head.ref
  /\ last.result.value # Undefined
  /\ last.result.value[1].number = 2

----------------------------------------------------------------------------
(* Preview resolver                                                        *)

PreviewCalled == last.op = "getGithubPreviewProps"

\* what getDecodedData did in the latest preview call
Fetched == last.response[1]

\* C7: an envelope that getGithubPreviewProps returns has preview = true and
\* exactly one of file and error non-null; a successful fetch and parse
\* gives file = { sha, fileRelativePath, data: parse(content) } and a null
\* error; a fetch that raises a GitHub error with status S gives, without
\* throwing, a null file and an error whose status is S.
C7_PreviewEnvelope ==
  PreviewCalled =>
    LET options == last.args[1] IN
      /\ Returned =>
           /\ last.result.value.props.preview = TRUE
           /\ (last.result.value.props.file = <<>>)
                # (last.result.value.props.error = <<>>)
      /\ (Fetched.kind = "return" /\ options.parse = "decode") =>
           /\ Returned
           /\ last.result.value.props.file
                = <<[sha |-> Fetched.value.sha,
                     fileRelativePath |-> options.fileRelativePath,
                     data |-> parse("decode", Fetched.value.content).value]>>
           /\ last.result.value.props.error = <<>>
      /\ (Fetched.kind = "throw" /\ Fetched.err.name = "GithubError") =>
           /\ Returned
           /\ last.result.value.props.file = <<>>
           /\ last.result.value.props.error # <<>>
           /\ last.result.value.props.error[1].status = Fetched.err.status

\* the fetch raised a GitHub error with status 404 and the call returned it
\* in the envelope
C7_Witness ==
  /\ PreviewCalled
  /\ Fetched.kind = "throw"
  /\ Fetched.err.name = "GithubError"
  /\ Fetched.err.status = 404
  /\ Returned
  /\ last.result.value.props.file = <<>>
  /\ last.result.value.props.error[1].status = 404

\* C8: only a GitHub error of the fetch is converted into the error field;
\* every other exception of the fetch, and every failure raised inside the
\* caller's parse whatever its type, reaches the caller and no envelope is
\* returned.
C8_OnlyFetchErrorsConverted ==
  PreviewCalled =>
    /\ (Fetched.kind = "throw" /\ Fetched.err.name # "GithubError") =>
         (Threw /\ last.result.err = Fetched.err)
    /\ (Fetched.kind = "return" /\ last.args[1].parse # "decode") =>
         /\ Threw
         /\ last.result.err
              = parse(last.args[1].parse, Fetched.value.content).err

----------------------------------------------------------------------------
(* Proxy client: other failures, and the cookie frame                      *)

\* C9: in every client operation a network failure of the proxy request and
\* a JSON parse failure of the response body reach the caller unchanged;
\* the only failures turned into an empty result are status 401 in getUser
\* and status 404 in getBranch.
C9_OtherFailuresPropagate ==
  (last.op \in ClientOps /\ last.response # <<>>) =>
    /\ last.response[1].net = "fail" =>
         (Threw /\ last.result.err = FetchTypeError)
    /\ (last.response[1].net = "ok" /\ last.response[1].body = <<>>) =>
         (Threw /\ last.result.err = JsonSyntaxError)

\* C10: the fork cookie changes only in a createFork call whose response is
\* 2xx; every other client call, and a createFork that raises, leaves both
\* slots as they were; no client call writes the head_branch cookie.
C10_CookieFrame ==
  [][ /\ cookies' # cookies =>
           /\ last'.op = "createFork"
           /\ last'.result.kind = "return"
           /\ last'.response # <<>>
           /\ last'.response[1].net = "ok"
           /\ Is2xx(last'.response[1].status)
      /\ getCookie(cookies', HEAD_BRANCH_COOKIE_KEY)
           = getCookie(cookies, HEAD_BRANCH_COOKIE_KEY)
      /\ (last'.op \in ClientOps /\ last'.result.kind = "throw") =>
           cookies' = cookies ]_vars

\* a createFork answered with 201 replaced the fork cookie ForkA by ForkB
C10_Witness ==
  /\ Answered("createFork")
  /\ last.response[1].status = 201
  /\ Returned
  /\ ForkCookieBefore = <<ForkA>>
  /\ getCookie(cookies, FORK_COOKIE_KEY) = <<ForkB>>
  /\ getCookie(cookies, HEAD_BRANCH_COOKIE_KEY) = BranchCookieBefore

====
